---- MODULE Spec2Model ----
(***************************************************************************)
(* Polar Oxides (src/src/main.rs): particle generation, the ViewState      *)
(* transitions of PolarOxides::interact and the dirty-flag batch rebuild   *)
(* of PolarOxides::draw.                                                   *)
(*                                                                         *)
(* f32 values that carry fractions (positions, pixel rate, frame sizes)    *)
(* are fixed-point integers in thousandths (Milli).  zoom_level is an i32: *)
(* its additions are checked against I32Max.                               *)
(***************************************************************************)
EXTENDS Integers, Sequences, FiniteSets

VARIABLES
    max_number,         \* generate_particles: the parsed upper bound
    prime_tester,       \* generate_particles: the PrimeSet, or NoTester
    mapped,             \* generate_particles: results the workers produced so far
    particles,          \* PolarOxides.particles
    loaded,             \* the load task has completed
    configs,            \* PolarOxides.configs
    prev_frame_configs, \* PolarOxides.prev_frame_configs
    batch,              \* PolarOxides.batch (the sprites it holds, in order)
    fullscreen,         \* the host window's fullscreen flag
    running,            \* the process has neither exited nor panicked
    overflowed,         \* an i32 addition on zoom_level has overflowed
    frame,              \* width and height of the frame of the last draw call
    draw_calls,         \* how often draw has been called: "none", "one" or "many"
    rebuilt,            \* the last draw call cleared and repopulated the batch
    probe               \* result of the last single evaluation of a pure function

vars == <<max_number, prime_tester, mapped, particles, loaded, configs,
          prev_frame_configs, batch, fullscreen, running, overflowed, frame,
          draw_calls, rebuilt, probe>>

genVars  == <<max_number, prime_tester, mapped, particles, loaded>>
gameVars == <<configs, prev_frame_configs, batch, fullscreen, running,
              overflowed, frame, draw_calls, rebuilt>>

----------------------------------------------------------------------------
(* Bounds of the model *)

\* largest upper bound given on the command line for which the whole field is generated
MaxNumber == 7
\* interact is followed up to this zoom_level when only ViewState is modelled
ZoomCap == 1003
\* interact is followed up to this zoom_level when draw is modelled as well
ViewZoomCap == 3
\* after a wrapped addition, interact is followed this far above I32Min
WrapWindow == 2

----------------------------------------------------------------------------
(* Number representations *)

Milli == 1000
Micro == 1000000
I32Max == 2147483647
I32Min == (-2147483647) - 1
F32MantissaBits == 24

Abs(v) == IF v < 0 THEN -v ELSE v
Max(a, b) == IF a >= b THEN a ELSE b

\* product of two f32 values held in thousandths
MulMilli(a, b) == IF (a < 0) = (b < 0) THEN (Abs(a) * Abs(b)) \div Milli
                  ELSE -((Abs(a) * Abs(b)) \div Milli)

\* `v as i32` for a non-negative f32 held in thousandths: truncation
AsI32(v) == v \div Milli

RECURSIVE Pow2(_)
Pow2(k) == IF k = 0 THEN 1 ELSE 2 * Pow2(k - 1)

RECURSIVE Log2(_)
Log2(n) == IF n < 2 THEN 0 ELSE 1 + Log2(n \div 2)

\* `n as f32` for an unsigned integer n, and the integer the f32 then holds:
\* above 2^24 the value is rounded to a multiple of the f32 spacing, ties to even
AsF32(n) ==
    IF n < Pow2(F32MantissaBits) THEN n
    ELSE LET step == Pow2(Log2(n) - (F32MantissaBits - 1))
             q    == n \div step
             r    == n % step
         IN  IF 2 * r < step THEN q * step
             ELSE IF 2 * r > step THEN (q + 1) * step
             ELSE IF q % 2 = 0 THEN q * step ELSE (q + 1) * step

\* `number as u64` for an integer-valued f32
AsU64(number) == IF number < 0 THEN 0 ELSE number

----------------------------------------------------------------------------
(* PolarOxideColors *)

BLACK == "black"
YELLOW == "yellow"
BLUE == "blue"
COLORS == <<BLACK, YELLOW, BLUE>>

index_of(c) ==
    IF \E i \in 1..Len(COLORS) : COLORS[i] = c
    THEN (CHOOSE i \in 1..Len(COLORS) :
              COLORS[i] = c /\ \A j \in 1..(i - 1) : COLORS[j] # c) - 1
    ELSE 0

----------------------------------------------------------------------------
(* Constants of PolarOxides *)

DEFAULT_MAX_NUMBER == 50000
BASE_PIXEL_RATE == 10
MAX_ZOOM_LEVEL == 1000

----------------------------------------------------------------------------
(* primes::PrimeSet, as generate_particles and Particle::new use it: the    *)
(* set keeps the list of all primes up to its last element.                 *)

RECURSIVE IsqrtIn(_, _, _)
IsqrtIn(n, lo, hi) ==
    IF lo >= hi THEN lo
    ELSE LET mid == (lo + hi + 1) \div 2
         IN  IF mid <= n \div mid THEN IsqrtIn(n, mid, hi)
             ELSE IsqrtIn(n, lo, mid - 1)

\* what the list holds: n is divisible by no smaller prime
IsListedPrime(n) ==
    /\ n >= 2
    /\ \A d \in 2..IsqrtIn(n, 1, Max(1, n \div 2)) : n % d # 0

RECURSIVE SmallestPrimeFrom(_)
SmallestPrimeFrom(n) == IF IsListedPrime(n) THEN n ELSE SmallestPrimeFrom(n + 1)

NoTester == [last |-> 0]

\* PrimeSet::new(): the list 2, 3
PrimeSet_new == [last |-> 3]

\* find(n): the list is extended until its last element is >= n
PrimeSet_find(ps, n) == IF n > ps.last THEN [last |-> SmallestPrimeFrom(n)] ELSE ps

\* find_vec(n): the smallest listed prime >= n, None when n is past the list
None == [some |-> FALSE, value |-> 0]
Some(v) == [some |-> TRUE, value |-> v]
PrimeSet_find_vec(ps, n) == IF n > ps.last THEN None ELSE Some(SmallestPrimeFrom(n))

----------------------------------------------------------------------------
(* Particle *)

\* f32 cos and sin of 1.0 .. 12.0, in thousandths
COS_MILLI == <<540, -416, -990, -654, 284, 960, 754, -146, -911, -839, 4, 844>>
SIN_MILLI == <<841, 909, 141, -757, -959, -279, 657, 989, 412, -544, -1000, -537>>

Particle_position(number) ==
    [x |-> number * COS_MILLI[number], y |-> number * SIN_MILLI[number]]

Particle_is_prime(number, tester) ==
    LET found == PrimeSet_find_vec(tester, AsU64(number))
    IN  IF found.some THEN found.value = AsU64(number) ELSE FALSE

Particle_new(number, tester) ==
    [position |-> Particle_position(number),
     is_prime |-> Particle_is_prime(number, tester)]

----------------------------------------------------------------------------
(* PolarOxides::generate_particles *)

\* a command-line token: a string of decimal digits with its value, or not one
Digits(v) == [digits |-> TRUE, value |-> v]
Garbage == [digits |-> FALSE, value |-> 0]

\* args[1].trim().parse::<u64>(), the default on Err and on a missing argument
ParseMaxNumber(args) ==
    IF Len(args) > 1
    THEN IF args[2].digits THEN args[2].value ELSE DEFAULT_MAX_NUMBER
    ELSE DEFAULT_MAX_NUMBER

\* SourceRange with the upper bound included
SourceRangeInclusive(max) == 1..max

\* the range 1..max_number, upper bound exclusive
SourceRange(max) == 1..(max - 1)

\* the collected vector: one particle per source integer, in range order
CollectedField(results, max) == [i \in SourceRange(max) |-> results[i]]

\* the field of a completed generation
GeneratedField(max) ==
    LET tester == PrimeSet_find(PrimeSet_new, max)
    IN  CollectedField([n \in SourceRange(max) |-> Particle_new(AsF32(n), tester)], max)

----------------------------------------------------------------------------
(* Configs and the state load constructs *)

Configs(z, d) == [zoom_level |-> z, draw_nonprimes |-> d]

LoadConfigs == Configs(0, TRUE)
\* LoadPrevFrameConfigs starting equal to LoadConfigs
LoadPrevFrameConfigsZero == Configs(0, TRUE)
LoadPrevFrameConfigs == Configs(-1, TRUE)

NoFrame == [width |-> 0, height |-> 0]
NoProbe == [kind |-> "none"]

\* the PolarOxides value load builds, in the window main opens
Constructed ==
    /\ configs = LoadConfigs
    /\ prev_frame_configs = LoadPrevFrameConfigs
    /\ batch = <<>>
    /\ fullscreen = FALSE
    /\ running = TRUE
    /\ overflowed = FALSE
    /\ frame = NoFrame
    /\ draw_calls = "none"
    /\ rebuilt = FALSE

\* command lines with a numeric bound the model generates a whole field for
NumericArgs == {<<"polar-oxides", Digits(v)>> : v \in 0..MaxNumber}

\* the game as load hands it to the host
Init ==
    /\ \E args \in NumericArgs :
          /\ max_number = ParseMaxNumber(args)
          /\ prime_tester = PrimeSet_find(PrimeSet_new, max_number)
          /\ mapped = [n \in SourceRange(max_number) |->
                          Particle_new(AsF32(n), prime_tester)]
          /\ particles = GeneratedField(max_number)
    /\ loaded = TRUE
    /\ Constructed
    /\ probe = NoProbe

----------------------------------------------------------------------------
(* PolarOxides::interact *)

\* the key edges one interact call sees: W and S pressed, F, D and Escape released
Inputs == [W : BOOLEAN, S : BOOLEAN, F : BOOLEAN, D : BOOLEAN, Escape : BOOLEAN]

Keys(w, s, f, d, e) == [W |-> w, S |-> s, F |-> f, D |-> d, Escape |-> e]

\* if is_key_pressed(W): zoom in, guarded by zoom_level > 0
ZoomIn(c, input) ==
    IF input.W /\ c.zoom_level > 0
    THEN [c EXCEPT !.zoom_level = @ - 1] ELSE c

\* if is_key_pressed(S): zoom out, guarded by zoom_level <= MAX_ZOOM_LEVEL
ZoomOut(c, input) ==
    IF input.S /\ c.zoom_level <= MAX_ZOOM_LEVEL
    THEN [c EXCEPT !.zoom_level = @ + 1] ELSE c

\* zoom_level += 1 on an i32: at I32Max a build with overflow checks panics,
\* a build without them wraps to I32Min
IncrementOutcomes(z) ==
    IF z = I32Max
    THEN {[value |-> z, overflow |-> TRUE, panic |-> TRUE],
          [value |-> I32Min, overflow |-> TRUE, panic |-> FALSE]}
    ELSE {[value |-> z + 1, overflow |-> FALSE, panic |-> FALSE]}

\* if was_key_released(F): the unguarded increment that follows toggle_fullscreen
FullscreenZoomOutcomes(c, input) ==
    IF input.F
    THEN {[configs |-> [c EXCEPT !.zoom_level = r.value],
           overflow |-> r.overflow, panic |-> r.panic] :
              r \in IncrementOutcomes(c.zoom_level)}
    ELSE {[configs |-> c, overflow |-> FALSE, panic |-> FALSE]}

\* if was_key_released(D): flip draw_nonprimes
ToggleNonprimes(c, input) ==
    IF input.D THEN [c EXCEPT !.draw_nonprimes = ~@] ELSE c

interact(input) ==
    /\ loaded
    /\ running
    /\ \E f \in FullscreenZoomOutcomes(ZoomOut(ZoomIn(configs, input), input), input) :
          /\ fullscreen' = IF input.F THEN ~fullscreen ELSE fullscreen
          /\ overflowed' = (overflowed \/ f.overflow)
          /\ IF f.panic
             THEN /\ configs' = f.configs
                  /\ running' = FALSE
             ELSE /\ configs' = ToggleNonprimes(f.configs, input)
                  /\ running' = ~input.Escape
    /\ UNCHANGED <<prev_frame_configs, batch, frame, draw_calls, rebuilt, probe>>
    /\ UNCHANGED genVars

----------------------------------------------------------------------------
(* PolarOxides::draw *)

\* 1.02_f32.powi(z), in millionths
RECURSIVE Powi102(_)
Powi102(z) ==
    IF z = 0 THEN Micro
    ELSE IF z > 0 THEN (Powi102(z - 1) * 102) \div 100
    ELSE (Micro * Milli) \div (Powi102(-z) \div Milli)

\* BASE_PIXEL_RATE / 1.02^zoom_level, in thousandths
PixelRate(zoom_level) ==
    (BASE_PIXEL_RATE * Milli * (Micro \div 10)) \div (Powi102(zoom_level) \div 10)

\* max(frame.width() as i32, frame.height() as i32) as f32: a whole number
FrameBound(fr) == Max(AsI32(fr.width), AsI32(fr.height))

\* max(|x| as i32, |y| as i32) as f32 of the scaled position: a whole number
MaxDim(position, pixel_rate) ==
    Max(AsI32(Abs(MulMilli(position.x, pixel_rate))),
        AsI32(Abs(MulMilli(position.y, pixel_rate))))

\* Visible with the lower threshold exclusive
VisibleAboveOne(particle, pixel_rate, frame_bound, draw_nonprime) ==
    /\ MaxDim(particle.position, pixel_rate) > 1
    /\ (MaxDim(particle.position, pixel_rate) * Milli) \div 2 <= frame_bound * Milli
    /\ (particle.is_prime \/ draw_nonprime)

\* Visible without the draw_nonprime test
VisibleIgnoringToggle(particle, pixel_rate, frame_bound, draw_nonprime) ==
    /\ MaxDim(particle.position, pixel_rate) >= 1
    /\ (MaxDim(particle.position, pixel_rate) * Milli) \div 2 <= frame_bound * Milli

\* the closure given to filter
Visible(particle, pixel_rate, frame_bound, draw_nonprime) ==
    /\ MaxDim(particle.position, pixel_rate) >= 1
    /\ (MaxDim(particle.position, pixel_rate) * Milli) \div 2 <= frame_bound * Milli
    /\ (particle.is_prime \/ draw_nonprime)

\* the closure given to map
SpriteOf(particle, pixel_rate, fr) ==
    [source   |-> [x |-> IF particle.is_prime THEN index_of(BLUE) ELSE index_of(YELLOW),
                   y |-> 0, width |-> 1, height |-> 1],
     position |-> [x |-> MulMilli(particle.position.x, pixel_rate) + fr.width \div 2,
                   y |-> MulMilli(particle.position.y, pixel_rate) + fr.height \div 2],
     scale    |-> <<2, 2>>]

\* the sprites of field[from..], in field order
RECURSIVE SpritesFrom(_, _, _, _)
SpritesFrom(field, from, c, fr) ==
    IF from > Len(field) THEN <<>>
    ELSE LET pixel_rate == PixelRate(c.zoom_level)
             rest       == SpritesFrom(field, from + 1, c, fr)
         IN  IF Visible(field[from], pixel_rate, FrameBound(fr), c.draw_nonprimes)
             THEN <<SpriteOf(field[from], pixel_rate, fr)>> \o rest
             ELSE rest

\* batch.clear(); batch.par_extend(sprites)
RebuiltBatch(field, c, fr) == SpritesFrom(field, 1, c, fr)

\* ConfigsDiffer comparing the zoom level alone
ConfigsDifferZoomOnly(a, b) == a.zoom_level # b.zoom_level

\* self.configs != self.prev_frame_configs (derived PartialEq)
ConfigsDiffer(a, b) ==
    a.zoom_level # b.zoom_level \/ a.draw_nonprimes # b.draw_nonprimes

draw(fr) ==
    /\ loaded
    /\ running
    /\ IF ConfigsDiffer(configs, prev_frame_configs)
       THEN /\ batch' = RebuiltBatch(particles, configs, fr)
            /\ rebuilt' = TRUE
       ELSE /\ batch' = batch
            /\ rebuilt' = FALSE
    /\ prev_frame_configs' = configs
    /\ frame' = fr
    /\ draw_calls' = IF draw_calls = "none" THEN "one" ELSE "many"
    /\ UNCHANGED <<configs, fullscreen, running, overflowed, probe>>
    /\ UNCHANGED genVars

\* frame sizes the host supplies (the window is resizable), in thousandths
FrameSizes == {[width |-> 40 * Milli, height |-> 24 * Milli],
               [width |-> 20 * Milli, height |-> 30 * Milli]}

----------------------------------------------------------------------------
(* Specifications *)

\* the game loop: interact and draw in any order, any input, any frame size
Interact == \E input \in Inputs :
               interact(input) /\ configs'.zoom_level <= ViewZoomCap
Draw == \E fr \in FrameSizes : draw(fr)
Next == Interact \/ Draw
Spec == Init /\ [][Next]_vars

\* input handling alone, any mix of the five events
InteractAny == \E input \in Inputs :
                  interact(input) /\ configs'.zoom_level <= ZoomCap
SpecInput == Init /\ [][InteractAny]_vars

\* input handling alone, zoom-in and zoom-out key-downs only
ZoomInputs == {input \in Inputs : ~input.F /\ ~input.D /\ ~input.Escape}
InteractZoom == \E input \in ZoomInputs :
                   interact(input) /\ configs'.zoom_level <= ZoomCap
SpecZoomKeys == Init /\ [][InteractZoom]_vars

\* input handling alone over the whole i32 range: as SpecInput, and a long run of
\* interact calls that each see only an F release is taken in one step
HeldToggles == (I32Max - ZoomCap) - 1

ZoomModelled(z) ==
    \/ z <= I32Min + WrapWindow
    \/ (0 <= z /\ z <= ZoomCap)
    \/ z >= HeldToggles

\* HeldToggles consecutive interact calls with Keys(FALSE, FALSE, TRUE, FALSE, FALSE),
\* none of which overflows
interact_held_F ==
    /\ loaded
    /\ running
    /\ configs.zoom_level <= I32Max - HeldToggles
    /\ configs' = [configs EXCEPT !.zoom_level = @ + HeldToggles]
    /\ fullscreen' = IF HeldToggles % 2 = 1 THEN ~fullscreen ELSE fullscreen
    /\ UNCHANGED <<prev_frame_configs, batch, running, overflowed, frame,
                   draw_calls, rebuilt, probe>>
    /\ UNCHANGED genVars

InteractWide == \E input \in Inputs :
                   interact(input) /\ ZoomModelled(configs'.zoom_level)
NextOverflow == InteractWide \/ interact_held_F
SpecOverflow == Init /\ [][NextOverflow]_vars

----------------------------------------------------------------------------
(* generate_particles step by step: the PrimeSet is built, the workers map  *)
(* the source integers in any order, the results are collected in order.    *)

InitGen ==
    /\ \E args \in NumericArgs : max_number = ParseMaxNumber(args)
    /\ prime_tester = NoTester
    /\ mapped = <<>>
    /\ particles = <<>>
    /\ loaded = FALSE
    /\ Constructed
    /\ probe = NoProbe

\* let mut prime_tester = PrimeSet::new(); prime_tester.find(max_number)
BuildTester ==
    /\ ~loaded
    /\ prime_tester = NoTester
    /\ prime_tester' = PrimeSet_find(PrimeSet_new, max_number)
    /\ UNCHANGED <<max_number, mapped, particles, loaded, probe>>
    /\ UNCHANGED gameVars

\* a worker applies the map closure to one source integer
MapNumber(n) ==
    /\ ~loaded
    /\ prime_tester # NoTester
    /\ n \in SourceRange(max_number)
    /\ n \notin DOMAIN mapped
    /\ mapped' = [k \in DOMAIN mapped \cup {n} |->
                     IF k = n THEN Particle_new(AsF32(n), prime_tester) ELSE mapped[k]]
    /\ UNCHANGED <<max_number, prime_tester, particles, loaded, probe>>
    /\ UNCHANGED gameVars

\* collect(), then load's map builds the game
Collect ==
    /\ ~loaded
    /\ prime_tester # NoTester
    /\ DOMAIN mapped = SourceRange(max_number)
    /\ particles' = CollectedField(mapped, max_number)
    /\ loaded' = TRUE
    /\ UNCHANGED <<max_number, prime_tester, mapped, probe>>
    /\ UNCHANGED gameVars

Map == \E n \in 1..(MaxNumber + 1) : MapNumber(n)
NextGen == BuildTester \/ Map \/ Collect
SpecGen == InitGen /\ [][NextGen]_vars

----------------------------------------------------------------------------
(* Particle::new's primality flag, one source integer at a time, for every  *)
(* way the upper bound is obtained: parsed, unparsable, missing.            *)

\* source integers this far below 2^24 and the default bound are looked at
SampleBelow == 6
\* upper bounds and source integers this far above 2^24 are looked at
SampleAbove == 48

F32Exact == Pow2(F32MantissaBits)

ParticleArgs ==
    NumericArgs
    \cup {<<"polar-oxides">>, <<"polar-oxides", Garbage>>}
    \cup {<<"polar-oxides", Digits(F32Exact + k)>> : k \in 0..SampleAbove}

SampleSources ==
    (1..MaxNumber)
    \cup ((DEFAULT_MAX_NUMBER - SampleBelow)..DEFAULT_MAX_NUMBER)
    \cup ((F32Exact - SampleBelow)..(F32Exact + SampleAbove))

InitParticle ==
    /\ \E args \in ParticleArgs :
          /\ max_number = ParseMaxNumber(args)
          /\ prime_tester = PrimeSet_find(PrimeSet_new, max_number)
    /\ mapped = <<>>
    /\ particles = <<>>
    /\ loaded = FALSE
    /\ Constructed
    /\ probe = NoProbe

\* the map closure's primality flag for source integer n
FlagNumber(n) ==
    /\ ~loaded
    /\ probe = NoProbe
    /\ n < max_number
    /\ probe' = [kind |-> "is_prime", source |-> n,
                 is_prime |-> Particle_is_prime(AsF32(n), prime_tester)]
    /\ UNCHANGED <<max_number, prime_tester, mapped, particles, loaded>>
    /\ UNCHANGED gameVars

Flag == \E n \in SampleSources : FlagNumber(n)
SpecParticle == InitParticle /\ [][Flag]_vars

----------------------------------------------------------------------------
(* The filter closure of draw on synthetic particles near its thresholds.   *)

\* zoom levels the filter is evaluated at
FilterZoomMax == 3

\* coordinates in thousandths: around 0.1 (scaled to 1.0 at zoom 0) and around
\* 8.0 and 6.0 (scaled to twice the frame bound at zoom 0)
SyntheticCoordinates == {0, 99, 100, 150, 5950, 6000, 6050, 6100,
                         7950, 8000, 8050, 8100, -100, -8050, -8100}

SyntheticParticles ==
    {[position |-> [x |-> cx, y |-> cy], is_prime |-> p] :
        cx \in SyntheticCoordinates, cy \in {0, 99, -150, 8050}, p \in BOOLEAN}

FilterParticle(particle, zoom_level, fr, draw_nonprime) ==
    /\ loaded
    /\ probe = NoProbe
    /\ probe' = [kind |-> "visible", particle |-> particle,
                 pixel_rate |-> PixelRate(zoom_level), frame |-> fr,
                 draw_nonprime |-> draw_nonprime,
                 kept |-> Visible(particle, PixelRate(zoom_level), FrameBound(fr),
                                  draw_nonprime)]
    /\ UNCHANGED genVars
    /\ UNCHANGED gameVars

Filter == \E particle \in SyntheticParticles, zoom_level \in 0..FilterZoomMax,
             fr \in FrameSizes, draw_nonprime \in BOOLEAN :
             FilterParticle(particle, zoom_level, fr, draw_nonprime)
SpecFilter == Init /\ [][Filter]_vars

----------------------------------------------------------------------------
(* Properties *)

\* C1: with only zoom-in and zoom-out key-downs, zoom_level stays in
\* [0, MAX_ZOOM_LEVEL].
C1_ZoomWithinMax ==
    0 <= configs.zoom_level /\ configs.zoom_level <= MAX_ZOOM_LEVEL

\* C2: with any mix of the five input events, zoom_level never exceeds
\* MAX_ZOOM_LEVEL + 1.
C2_ZoomAtMostOneAboveMax == configs.zoom_level <= MAX_ZOOM_LEVEL + 1

\* C3: zoom-in at zoom_level = 0 and zoom-out above MAX_ZOOM_LEVEL leave the
\* ViewState unchanged, and zoom_level is never negative and its i32 never overflows.
C3_ZoomClamped ==
    [][/\ (configs.zoom_level = 0 /\ interact(Keys(TRUE, FALSE, FALSE, FALSE, FALSE)))
             => configs' = configs
       /\ (configs.zoom_level > MAX_ZOOM_LEVEL
             /\ interact(Keys(FALSE, TRUE, FALSE, FALSE, FALSE)))
             => configs' = configs
       /\ configs'.zoom_level >= 0
       /\ ~overflowed']_vars

RealMaxDim(position, pixel_rate) ==
    Max(Abs(MulMilli(position.x, pixel_rate)), Abs(MulMilli(position.y, pixel_rate)))

ProbeMaxDim == RealMaxDim(probe.particle.position, probe.pixel_rate)
ProbeShown == probe.particle.is_prime \/ probe.draw_nonprime

\* C5 as stated: a particle is kept iff max_dim >= 1.0, max_dim / 2.0 <= frame_bound
\* and (is_prime or draw_nonprimes), with max_dim = max(|scaled.x|, |scaled.y|) and
\* frame_bound = max(frame_width, frame_height).
C5_KeptIffRealMaxDim ==
    probe.kind = "visible" =>
       (probe.kept <=>
           /\ ProbeMaxDim >= Milli
           /\ ProbeMaxDim <= 2 * Max(probe.frame.width, probe.frame.height)
           /\ ProbeShown)

\* C5 amended: max_dim is compared in whole pixels, so a particle is kept iff
\* 1.0 <= max_dim < 2 * frame_bound + 1 and (is_prime or draw_nonprimes).
C5_KeptIffWholePixelMaxDim ==
    probe.kind = "visible" =>
       (probe.kept <=>
           /\ ProbeMaxDim >= Milli
           /\ ProbeMaxDim < (2 * FrameBound(probe.frame) + 1) * Milli
           /\ ProbeShown)

\* a particle whose max_dim / 2 is above frame_bound by less than half a pixel is kept
C5_Witness ==
    /\ probe.kind = "visible"
    /\ probe.kept
    /\ ProbeMaxDim > 2 * Max(probe.frame.width, probe.frame.height)

IsPrimeSprite(sprite) == sprite.source.x = index_of(BLUE)
IsNonPrimeSprite(sprite) == sprite.source.x = index_of(YELLOW)

TrialDivision(n) ==
    /\ n > 1
    /\ ~ \E d \in 2..IsqrtIn(n, 1, Max(1, n \div 2)) : n % d = 0

\* C7: for every source integer n in [1, max_number), the particle's is_prime flag
\* equals trial division on n.
C7_FlagMatchesTrialDivision ==
    probe.kind = "is_prime" => (probe.is_prime <=> TrialDivision(probe.source))

\* the particle of source integer n is in the field exactly once
OncePerSource(n) ==
    Cardinality({i \in DOMAIN particles :
                    particles[i].position = Particle_position(n)}) = 1

\* C8 as stated: generation yields exactly max_number - 1 particles, one for each
\* source integer in 1..max_number (exclusive), however the workers are scheduled.
C8_CountIsMaxMinusOne ==
    loaded =>
       /\ Len(particles) = max_number - 1
       /\ \A n \in 1..(max_number - 1) : OncePerSource(n)

\* C8 amended: generation yields no particle for max_number = 0 and exactly
\* max_number - 1 otherwise, one for each source integer in 1..max_number (exclusive).
C8_CountIsRangeLength ==
    loaded =>
       /\ Len(particles) = IF max_number = 0 THEN 0 ELSE max_number - 1
       /\ \A n \in 1..(max_number - 1) : OncePerSource(n)
       /\ \A i \in DOMAIN particles : i \in 1..(max_number - 1)

\* a field of several particles has been collected
C8_Witness ==
    /\ loaded
    /\ max_number >= 4
    /\ Len(particles) = max_number - 1

\* C9: after every draw call the batch is the filter+map of the field under the
\* current ViewState and the frame size of that draw call.
C9_BatchFresh ==
    (draw_calls # "none" /\ prev_frame_configs = configs)
       => batch = RebuiltBatch(particles, configs, frame)

====
